---- MODULE Spec2Model ----
(***************************************************************************)
(* Model of the department dashboard routes:                               *)
(*   src/unnamed/part_000                        (HOD routes: /overview,   *)
(*                                                /faculty)                *)
(*   src/backend-nodejs/src/routes/analytics.js  (/department/:dept/stats, *)
(*                                                /department/:dept)       *)
(* A request handler is a small state machine: it awaits store calls, each *)
(* of which resolves or rejects, computes its result from the rows it got, *)
(* and sends one response.                                                 *)
(***************************************************************************)
EXTENDS Integers, Sequences, FiniteSets, TLC

(***************************************************************************)
(* Bounds of the model.                                                    *)
(***************************************************************************)
\* Rows appended, in every order, after a fixed cohort of rows (overview).
MaxTail == 2
\* Rows appended, in every order, after a fixed cohort of rows (stats).
MaxStatsTail == 2
\* Faculty users returned by User.findAll in GET /faculty.
MaxFaculty == 2

(***************************************************************************)
(* JavaScript values.  null/undefined is the empty tuple, a present value  *)
(* v is <<v>>.                                                             *)
(***************************************************************************)
Null == <<>>
Some(v) == <<v>>
Truthy(x) == x # Null /\ x[1] # 0
\* x || d  for a numeric field x
OrElse(x, d) == IF Truthy(x) THEN x[1] ELSE d
Abs(n) == IF n < 0 THEN -n ELSE n

(***************************************************************************)
(* IEEE-754 binary64 arithmetic as JavaScript's Number performs it, for    *)
(* the magnitudes that occur here: 0 and [2^-7, 2^20).  A magnitude is the *)
(* integer x * 2^60 held in four limbs of 20 bits, least significant       *)
(* first; every double in that range is such an integer.                   *)
(***************************************************************************)
LimbBase == 2^20
Pow2 == [i \in 0..30 |-> 2^i]
BitLen(x) == IF x = 0 THEN 0 ELSE CHOOSE k \in 1..20 : Pow2[k-1] <= x /\ x < Pow2[k]
BigFromInt(n) == <<0, 0, 0, n>>
BigAdd(X, Y) ==
    LET s1 == X[1] + Y[1]
        s2 == X[2] + Y[2] + (s1 \div LimbBase)
        s3 == X[3] + Y[3] + (s2 \div LimbBase)
        s4 == X[4] + Y[4] + (s3 \div LimbBase)
    IN  <<s1 % LimbBase, s2 % LimbBase, s3 % LimbBase, s4>>
\* X - Y for X >= Y
BigSub(X, Y) ==
    LET d1 == X[1] - Y[1]
        d2 == X[2] - Y[2] + (d1 \div LimbBase)
        d3 == X[3] - Y[3] + (d2 \div LimbBase)
        d4 == X[4] - Y[4] + (d3 \div LimbBase)
    IN  <<d1 % LimbBase, d2 % LimbBase, d3 % LimbBase, d4>>
BigLess(X, Y) ==
    \E i \in 1..4 : X[i] < Y[i] /\ \A j \in (i+1)..4 : X[j] = Y[j]
BigMulSmall(X, c) ==
    LET p1 == X[1] * c
        p2 == X[2] * c + (p1 \div LimbBase)
        p3 == X[3] * c + (p2 \div LimbBase)
        p4 == X[4] * c + (p3 \div LimbBase)
    IN  <<p1 % LimbBase, p2 % LimbBase, p3 % LimbBase, p4>>
\* floor(X / d) and whether a remainder was dropped, for 0 < d < 2^10
BigDivSmall(X, d) ==
    LET q4 == X[4] \div d
        t3 == (X[4] % d) * LimbBase + X[3]
        t2 == (t3 % d) * LimbBase + X[2]
        t1 == (t2 % d) * LimbBase + X[1]
    IN  [q |-> <<t1 \div d, t2 \div d, t3 \div d, q4>>, inexact |-> (t1 % d) # 0]
BigBitLen(X) ==
    IF X[4] # 0 THEN 60 + BitLen(X[4])
    ELSE IF X[3] # 0 THEN 40 + BitLen(X[3])
    ELSE IF X[2] # 0 THEN 20 + BitLen(X[2])
    ELSE BitLen(X[1])
\* Round to 53 significant bits, ties to even; sticky: bits below 2^-60
\* were already dropped from X.
RoundToDouble(X, sticky) ==
    LET t == BigBitLen(X) - 53 IN
    IF t <= 0 THEN X
    ELSE IF t <= 20 THEN
        LET r    == X[1] % Pow2[t]
            qbit == IF t < 20 THEN (X[1] \div Pow2[t]) % 2 ELSE X[2] % 2
            up   == r > Pow2[t-1] \/ (r = Pow2[t-1] /\ (sticky \/ qbit = 1))
            down == <<X[1] - r, X[2], X[3], X[4]>>
        IN  IF up THEN BigAdd(down, <<Pow2[t] % LimbBase, Pow2[t] \div LimbBase, 0, 0>>)
            ELSE down
    ELSE
        LET u    == t - 20
            rh   == X[2] % Pow2[u]
            r    == rh * LimbBase + X[1]
            qbit == (X[2] \div Pow2[u]) % 2
            up   == r > Pow2[t-1] \/ (r = Pow2[t-1] /\ (sticky \/ qbit = 1))
            down == <<0, X[2] - rh, X[3], X[4]>>
        IN  IF up THEN BigAdd(down, <<0, Pow2[u], 0, 0>>) ELSE down
\* a / b for integers a >= 0, b > 0
FlDivInt(a, b) ==
    LET d == BigDivSmall(BigFromInt(a), b) IN RoundToDouble(d.q, d.inexact)
\* x / n for a double x >= 0 and an integer n > 0
FlDiv(X, n) ==
    LET d == BigDivSmall(X, n) IN RoundToDouble(d.q, d.inexact)
\* x + y for doubles x, y >= 0
FlAdd(X, Y) == RoundToDouble(BigAdd(X, Y), FALSE)
\* x * c for a double x >= 0 and an integer c >= 0
FlMul(X, c) == RoundToDouble(BigMulSmall(X, c), FALSE)
\* x - y for doubles x >= y >= 0
FlSub(X, Y) == RoundToDouble(BigSub(X, Y), FALSE)
\* floor(x): the integer part is the top limb, so x < k iff IntPart(x) < k
IntPart(X) == X[4]
\* Number.prototype.toFixed(1) of a double x >= 0, in tenths: the integer n
\* with n/10 nearest to x, the larger n when two are equally near.
ToFixed1(X) == BigAdd(BigMulSmall(X, 10), <<0, 0, 2^19, 0>>)[4]

\* Signed doubles: the quotient of two integers, its comparison with an
\* integer k >= 0, and its toFixed(1) in tenths.
JsDiv(a, b) ==
    [neg |-> a # 0 /\ ((a < 0) # (b < 0)), mag |-> FlDivInt(Abs(a), Abs(b))]
JsTimes(x, c) == [neg |-> x.neg, mag |-> FlMul(x.mag, c)]
\* x / n for a signed double x and an integer n > 0
JsDivBy(x, n) == [neg |-> x.neg, mag |-> FlDiv(x.mag, n)]
\* x + y for signed doubles
JsAdd(x, y) ==
    IF x.neg = y.neg THEN [neg |-> x.neg, mag |-> FlAdd(x.mag, y.mag)]
    ELSE IF x.mag = y.mag THEN [neg |-> FALSE, mag |-> BigFromInt(0)]
    ELSE IF BigLess(x.mag, y.mag) THEN [neg |-> y.neg, mag |-> FlSub(y.mag, x.mag)]
    ELSE [neg |-> x.neg, mag |-> FlSub(x.mag, y.mag)]
JsLess(x, k) == x.neg \/ IntPart(x.mag) < k
JsToFixed1(x) == IF x.neg THEN -ToFixed1(x.mag) ELSE ToFixed1(x.mag)

RECURSIVE SumSeq(_)
SumSeq(s) == IF s = <<>> THEN 0 ELSE s[1] + SumSeq(Tail(s))

(***************************************************************************)
(* Property order of a JavaScript object (Object.keys/values/entries):     *)
(* keys that are array indices (non-negative integers) ascending, then the *)
(* other keys in insertion order.  A map is the sequence of its entries in *)
(* insertion order; an integer key n is <<n>>, the key "null" is Null and  *)
(* a subject name is <<name>>.                                             *)
(***************************************************************************)
IsIndexKey(k) == k # Null /\ k[1] \in Nat
HasKey(map, k) == \E i \in 1..Len(map) : map[i].key = k
IndexOfKey(map, k) == CHOOSE i \in 1..Len(map) : map[i].key = k
RECURSIVE SortByKey(_, _)
SortByKey(map, idx) ==
    IF idx = {} THEN <<>>
    ELSE LET i == CHOOSE j \in idx : \A l \in idx : map[j].key[1] <= map[l].key[1]
         IN  <<map[i]>> \o SortByKey(map, idx \ {i})
\* Object.values(map) if every key were kept in insertion order
ObjectValuesInsertionOrder(map) == map

\* Object.values(map) for integer studentId keys
ObjectValues(map) ==
    LET indexed(e) == IsIndexKey(e.key)
        named(e)   == ~IsIndexKey(e.key)
    IN  SortByKey(map, {i \in 1..Len(map) : indexed(map[i])}) \o SelectSeq(map, named)

(***************************************************************************)
(* GET /overview: the computation between the two store calls.             *)
(* A row of CIEMark.findAll is                                             *)
(*   [studentId, student, marks, maxMarks, subject, status]                *)
(* with student and subject the joined rows' names (or Null).              *)
(***************************************************************************)
Percent(m) == JsTimes(JsDiv(OrElse(m.marks, 0), OrElse(m.maxMarks, 50)), 100)

\* GradeStep with "percent > 80" for the first band
GradeStepStrict(g, m) ==
    LET percent == Percent(m) IN
    IF ~JsLess(percent, 80) /\ percent.mag # BigFromInt(80) THEN [g EXCEPT !.A = @ + 1]
    ELSE IF ~JsLess(percent, 60) THEN [g EXCEPT !.B = @ + 1]
    ELSE IF ~JsLess(percent, 40) THEN [g EXCEPT !.C = @ + 1]
    ELSE IF ~JsLess(percent, 20) THEN [g EXCEPT !.D = @ + 1]
    ELSE [g EXCEPT !.F = @ + 1]

GradeStep(g, m) ==
    LET percent == Percent(m) IN
    IF ~JsLess(percent, 80) THEN [g EXCEPT !.A = @ + 1]
    ELSE IF ~JsLess(percent, 60) THEN [g EXCEPT !.B = @ + 1]
    ELSE IF ~JsLess(percent, 40) THEN [g EXCEPT !.C = @ + 1]
    ELSE IF ~JsLess(percent, 20) THEN [g EXCEPT !.D = @ + 1]
    ELSE [g EXCEPT !.F = @ + 1]

RECURSIVE GradeLoop(_, _)
GradeLoop(g, ms) ==
    IF ms = <<>> THEN g ELSE GradeLoop(GradeStep(g, Head(ms)), Tail(ms))

GradeDistribution(ms) ==
    LET g == GradeLoop([A |-> 0, B |-> 0, C |-> 0, D |-> 0, F |-> 0], ms)
    IN  [labels |-> <<"A (80%+)", "B (60-79%)", "C (40-59%)", "D (20-39%)", "F (<20%)">>,
         data   |-> <<g.A, g.B, g.C, g.D, g.F>>]

\* studentMarksMap[key] = { student, scores, subjects }
StudentStep(map, m) ==
    LET key == m.studentId
        withEntry == IF HasKey(map, key) THEN map
                     ELSE Append(map, [key |-> key, student |-> m.student,
                                       scores |-> <<>>, subjects |-> {}])
        i == IndexOfKey(withEntry, key)
    IN  [withEntry EXCEPT ![i].scores = Append(@, OrElse(m.marks, 0)),
                          ![i].subjects = IF m.subject # Null
                                          THEN @ \cup {m.subject[1]} ELSE @]

RECURSIVE StudentMarksMap(_, _)
StudentMarksMap(map, ms) ==
    IF ms = <<>> THEN map ELSE StudentMarksMap(StudentStep(map, Head(ms)), Tail(ms))

Alert(id, type, template, about, value) ==
    [id |-> id, type |-> type,
     message |-> [template |-> template, about |-> about, value |-> value]]

\* One pass of Object.values(studentMarksMap).forEach; acc holds the
\* handler's alerts, alertId and atRiskCount.
AtRiskStep(acc, entry) ==
    LET avg == JsDiv(SumSeq(entry.scores), Len(entry.scores)) IN
    IF JsLess(avg, 18) /\ entry.student # Null
    THEN [acc EXCEPT
            !.atRiskCount = @ + 1,
            !.alerts  = IF Len(acc.alerts) < 5
                        THEN Append(@, Alert(acc.alertId, "warning", "has low average",
                                             entry.student[1], JsToFixed1(avg)))
                        ELSE @,
            !.alertId = IF Len(acc.alerts) < 5 THEN @ + 1 ELSE @]
    ELSE acc

RECURSIVE AtRiskLoop(_, _)
AtRiskLoop(acc, entries) ==
    IF entries = <<>> THEN acc
    ELSE AtRiskLoop(AtRiskStep(acc, Head(entries)), Tail(entries))

\* CriticalStep without the increment of alertId
CriticalStepSameId(acc) ==
    IF acc.atRiskCount > 5
    THEN [acc EXCEPT
            !.alerts  = <<Alert(acc.alertId, "critical",
                                "students are at risk with below-threshold marks",
                                "", acc.atRiskCount)>> \o @]
    ELSE acc

\* if (atRiskCount > 5) alerts.unshift({ id: alertId++, type: 'critical', ... })
CriticalStep(acc) ==
    IF acc.atRiskCount > 5
    THEN [acc EXCEPT
            !.alerts  = <<Alert(acc.alertId, "critical",
                                "students are at risk with below-threshold marks",
                                "", acc.atRiskCount)>> \o @,
            !.alertId = @ + 1]
    ELSE acc

\* subjectPerf[name] = { total, count }
SubjectStep(map, m) ==
    IF m.subject = Null THEN map
    ELSE LET key == m.subject
             withEntry == IF HasKey(map, key) THEN map
                          ELSE Append(map, [key |-> key, total |-> 0, count |-> 0])
             i == IndexOfKey(withEntry, key)
         IN  [withEntry EXCEPT ![i].total = @ + OrElse(m.marks, 0),
                               ![i].count = @ + 1]

RECURSIVE SubjectPerf(_, _)
SubjectPerf(map, ms) ==
    IF ms = <<>> THEN map ELSE SubjectPerf(SubjectStep(map, Head(ms)), Tail(ms))

\* SubjectAlertStep without the increment of alertId
SubjectAlertStepSameId(acc, entry) ==
    LET avg == JsDiv(entry.total, entry.count) IN
    IF JsLess(avg, 25)
    THEN [acc EXCEPT
            !.alerts  = Append(@, Alert(acc.alertId, "warning", "has low class average",
                                        entry.key[1], JsToFixed1(avg)))]
    ELSE acc

\* Object.entries(subjectPerf).forEach: subject names are not array
\* indices, so the entries come in insertion order.
SubjectAlertStep(acc, entry) ==
    LET avg == JsDiv(entry.total, entry.count) IN
    IF JsLess(avg, 25)
    THEN [acc EXCEPT
            !.alerts  = Append(@, Alert(acc.alertId, "warning", "has low class average",
                                        entry.key[1], JsToFixed1(avg))),
            !.alertId = @ + 1]
    ELSE acc

RECURSIVE SubjectAlertLoop(_, _)
SubjectAlertLoop(acc, entries) ==
    IF entries = <<>> THEN acc
    ELSE SubjectAlertLoop(SubjectAlertStep(acc, Head(entries)), Tail(entries))

PendingCount(ms) == Cardinality({i \in 1..Len(ms) : ms[i].status = "PENDING"})

PendingStep(acc, ms) ==
    LET pendingCount == PendingCount(ms) IN
    IF pendingCount > 0
    THEN [acc EXCEPT
            !.alerts  = Append(@, Alert(acc.alertId, "info",
                                        "mark entries are still pending review",
                                        "", pendingCount)),
            !.alertId = @ + 1]
    ELSE acc

\* AllClearStep without the test of alerts.length
AllClearStepAlways(acc) ==
    [acc EXCEPT
        !.alerts = Append(@, Alert(1, "info",
                      "All department metrics are within acceptable range", "", 0))]

AllClearStep(acc) ==
    IF Len(acc.alerts) = 0
    THEN [acc EXCEPT
            !.alerts = Append(@, Alert(1, "info",
                          "All department metrics are within acceptable range", "", 0))]
    ELSE acc

\* Steps 2 and 3 of the handler: what it holds when it awaits User.count.
OverviewCompute(ms) ==
    LET start    == [alerts |-> <<>>, alertId |-> 1, atRiskCount |-> 0]
        students == AtRiskLoop(start, ObjectValues(StudentMarksMap(<<>>, ms)))
        critical == CriticalStep(students)
        subjects == SubjectAlertLoop(critical, SubjectPerf(<<>>, ms))
        pending  == PendingStep(subjects, ms)
        final    == AllClearStep(pending)
    IN  [gradeDistribution |-> GradeDistribution(ms),
         alerts            |-> final.alerts,
         atRiskCount       |-> final.atRiskCount]

(***************************************************************************)
(* GET /department/:dept/stats: the computation after the store call.      *)
(* A number with one decimal (the result of toFixed(1), parsed back by     *)
(* parseFloat) is held in tenths: 223 is 22.3.                             *)
(***************************************************************************)
PASS_THRESHOLD == 20
RISK_THRESHOLD == 18

\* studentMarks[sid] = { total, count }
StudentTotalStep(map, mark) ==
    LET sid == mark.studentId
        withEntry == IF HasKey(map, sid) THEN map
                     ELSE Append(map, [key |-> sid, total |-> 0, count |-> 0])
        i == IndexOfKey(withEntry, sid)
    IN  [withEntry EXCEPT ![i].total = @ + OrElse(mark.marks, 0),
                          ![i].count = @ + 1]

RECURSIVE StudentMarks(_, _)
StudentMarks(map, ms) ==
    IF ms = <<>> THEN map ELSE StudentMarks(StudentTotalStep(map, Head(ms)), Tail(ms))

\* StatsStep with "avg > PASS_THRESHOLD"
StatsStepPassStrict(acc, entry) ==
    LET avg == JsDiv(entry.total, entry.count) IN
    [totalAvg       |-> JsAdd(acc.totalAvg, avg),
     passedStudents |-> IF ~JsLess(avg, PASS_THRESHOLD) /\ avg.mag # BigFromInt(PASS_THRESHOLD)
                        THEN acc.passedStudents + 1 ELSE acc.passedStudents,
     atRiskStudents |-> IF JsLess(avg, RISK_THRESHOLD)
                        THEN acc.atRiskStudents + 1 ELSE acc.atRiskStudents]

\* One pass of studentIds.forEach
StatsStep(acc, entry) ==
    LET avg == JsDiv(entry.total, entry.count) IN
    [totalAvg       |-> JsAdd(acc.totalAvg, avg),
     passedStudents |-> IF ~JsLess(avg, PASS_THRESHOLD)
                        THEN acc.passedStudents + 1 ELSE acc.passedStudents,
     atRiskStudents |-> IF JsLess(avg, RISK_THRESHOLD)
                        THEN acc.atRiskStudents + 1 ELSE acc.atRiskStudents]

RECURSIVE StatsLoop(_, _)
StatsLoop(acc, entries) ==
    IF entries = <<>> THEN acc
    ELSE StatsLoop(StatsStep(acc, Head(entries)), Tail(entries))

DepartmentStats(ms) ==
    IF Len(ms) = 0
    THEN [average |-> 0, passPercentage |-> 0, atRiskCount |-> 0, totalStudents |-> 0]
    ELSE
      LET studentIds    == ObjectValues(StudentMarks(<<>>, ms))
          totalStudents == Len(studentIds)
          acc == StatsLoop([totalAvg |-> JsDiv(0, 1), passedStudents |-> 0,
                            atRiskStudents |-> 0], studentIds)
          departmentAverage ==
              IF totalStudents > 0
              THEN JsToFixed1(JsDivBy(acc.totalAvg, totalStudents)) ELSE 0
          passPercentage ==
              IF totalStudents > 0
              THEN JsToFixed1(JsTimes(JsDiv(acc.passedStudents, totalStudents), 100))
              ELSE 0
      IN  [average        |-> departmentAverage,
           passPercentage |-> passPercentage,
           atRiskCount    |-> acc.atRiskStudents,
           totalStudents  |-> totalStudents]

(***************************************************************************)
(* GET /faculty and POST /faculty: the values they build.                  *)
(* A faculty User row is [id, username, fullName, department, subjects],   *)
(* subjects being the names Subject.findAll returns for instructorId = id. *)
(***************************************************************************)
FormatFaculty(f) ==
    [id          |-> f.id,
     username    |-> f.username,
     fullName    |-> IF f.fullName # Null THEN f.fullName[1] ELSE f.username,
     department  |-> IF f.department # Null THEN f.department[1] ELSE "General",
     designation |-> "Faculty",
     subjects    |-> f.subjects]

\* bcrypt.hash(password || 'password123', 10)
BcryptHash(password) ==
    [salted |-> IF password # Null /\ password[1] # "" THEN password[1] ELSE "password123",
     rounds |-> 10]

NewFaculty(id, body, hashedPassword) ==
    [id           |-> id,
     username     |-> body.username,
     fullName     |-> Some(body.fullName),
     email        |-> body.email,
     password     |-> hashedPassword,
     role         |-> "FACULTY",
     department   |-> Some(body.department),
     associatedId |-> body.username,
     subjects     |-> <<>>]

StaticError == [message |-> "Internal server error"]
\* { message: error.message || 'Internal server error' }
ErrorMessageOr(error) ==
    [message |-> IF error.message # "" THEN error.message ELSE "Internal server error"]

(***************************************************************************)
(* Inputs.                                                                 *)
(***************************************************************************)
\* A CIEMark row with its joined student: a mark whose studentId is null
\* has no student row.
Row(sid, score, maxMarks, subject, status) ==
    [studentId |-> sid,
     student   |-> IF sid = Null THEN Null ELSE Some(ToString(sid[1])),
     marks     |-> score,
     maxMarks  |-> maxMarks,
     subject   |-> subject,
     status    |-> status]

SeqsUpTo(S, n) == UNION {[1..k -> S] : k \in 0..n}

AlertRows ==
    {Row(sid, score, Some(50), Some(subject), status) :
        sid \in {Some(2), Some(1), Null},
        score \in {Null, Some(20), Some(40)},
        subject \in {"Math", "Physics"},
        status \in {"PENDING", "APPROVED"}}

GradeRows ==
    {Row(Some(1), score, maxMarks, Some("Math"), "APPROVED") :
        score \in {Null, Some(-5), Some(10), Some(20), Some(30), Some(40), Some(60)},
        maxMarks \in {Null, Some(0), Some(50), Some(100)}}

Weak(sid) == Row(Some(sid), Some(17), Some(50), Some("Math"), "APPROVED")
Strong(sid) == Row(Some(sid), Some(50), Some(50), Some("Math"), "APPROVED")
\* Five students below the risk threshold, first seen in the order
\* 7, 3, 9, 4, 8, and three strong ones.
CohortFiveAtRisk ==
    <<Weak(7), Weak(3), Strong(6), Weak(9), Weak(4), Strong(10), Weak(8), Strong(5)>>

OverviewInputs ==
    {cohort \o tail : cohort \in {<<>>, CohortFiveAtRisk},
                      tail \in SeqsUpTo(AlertRows, MaxTail)}
    \cup SeqsUpTo(GradeRows, MaxTail)

Scored(sid, score) == Row(sid, score, Some(50), Some("Math"), "APPROVED")
StatsRows ==
    {Scored(sid, score) : sid \in {Some(2), Some(1), Null},
                          score \in {Null, Some(15), Some(19), Some(25), Some(30)}}
\* Per-student means 25, 19, 15, 30.
CohortFourStudents ==
    <<Scored(Some(4), Some(25)), Scored(Some(3), Some(19)),
      Scored(Some(6), Some(15)), Scored(Some(5), Some(30))>>
\* One student with five marks, mean 15.8.
CohortFiveMarks ==
    <<Scored(Some(9), Some(19)), Scored(Some(9), Some(15)), Scored(Some(9), Some(15)),
      Scored(Some(9), Some(15)), Scored(Some(9), Some(15))>>
StatsInputs ==
    {cohort \o tail : cohort \in {<<>>, CohortFourStudents, CohortFiveMarks},
                      tail \in SeqsUpTo(StatsRows, MaxStatsTail)}

HttpRows ==
    {Scored(Some(1), Some(10)), Scored(Null, Some(10)),
     Row(Some(2), Some(40), Some(50), Some("Physics"), "PENDING")}

FacultyRows ==
    {[id |-> 1, username |-> "asha", fullName |-> Some("Asha Rao"),
      department |-> Some("CS"), subjects |-> <<"Math", "Physics">>],
     [id |-> 2, username |-> "ravi", fullName |-> Null,
      department |-> Null, subjects |-> <<>>]}
FacultyInputs ==
    {f \in SeqsUpTo(FacultyRows, MaxFaculty) :
        \A i, j \in 1..Len(f) : i # j => f[i].id # f[j].id}

Bodies ==
    {[username |-> "meera", fullName |-> "Meera Iyer", email |-> "meera@example.edu",
      password |-> pw, department |-> "CS", designation |-> "Lecturer"] :
        pw \in {Null, Some("s3cret")}}

\* What a rejected store or hashing call carries.
Errors ==
    {[message |-> "connect ECONNREFUSED"], [message |-> "Validation error"],
     [message |-> ""]}

Routes == {"GET /overview", "GET /faculty", "POST /faculty",
           "GET /department/:dept/stats", "GET /department/:dept"}

(***************************************************************************)
(* State.                                                                  *)
(***************************************************************************)
VARIABLES
    route,    \* the request being handled
    reqBody,  \* its body (POST /faculty), else Null
    marks,    \* the rows CIEMark.findAll finds for the department
    users,    \* the faculty User rows of the store
    pc,       \* where the handler is
    local,    \* the handler's local constants and variables
    lookups,  \* GET /faculty: the state of each Subject.findAll promise
    sent,     \* the responses sent, in order
    logged    \* console.error calls: <<label, error>>

vars == <<route, reqBody, marks, users, pc, local, lookups, sent, logged>>

NoLocal == [none |-> TRUE]

Fresh ==
    /\ pc = "start"
    /\ local = NoLocal
    /\ lookups = <<>>
    /\ sent = <<>>
    /\ logged = <<>>

Init ==
    /\ route \in Routes
    /\ reqBody \in (IF route = "POST /faculty" THEN Bodies ELSE {Null})
    /\ marks \in (IF route \in {"GET /overview", "GET /department/:dept/stats"}
                  THEN SeqsUpTo(HttpRows, MaxTail) ELSE {<<>>})
    /\ users \in (IF route \in {"GET /overview", "GET /faculty", "POST /faculty"}
                  THEN FacultyInputs ELSE {<<>>})
    /\ Fresh

InitOverview ==
    /\ route = "GET /overview"
    /\ reqBody = Null
    /\ marks \in OverviewInputs
    /\ users = <<>>
    /\ Fresh

InitStats ==
    /\ route = "GET /department/:dept/stats"
    /\ reqBody = Null
    /\ marks \in StatsInputs
    /\ users = <<>>
    /\ Fresh

Respond(status, body) == sent' = Append(sent, [status |-> status, body |-> body])

\* catch (error) { console.error(label, error); res.status(500).json(body) }
Catch(label, error, body) ==
    /\ logged' = Append(logged, <<label, error>>)
    /\ Respond(500, body)
    /\ pc' = "done"

(***************************************************************************)
(* GET /overview                                                           *)
(***************************************************************************)
\* await CIEMark.findAll(...) resolves; steps 2 and 3 run to the next await.
OverviewFindAllResolves ==
    /\ route = "GET /overview" /\ pc = "start"
    /\ local' = OverviewCompute(marks)
    /\ pc' = "count"
    /\ UNCHANGED <<route, reqBody, marks, users, lookups, sent, logged>>

OverviewFindAllRejects ==
    /\ route = "GET /overview" /\ pc = "start"
    /\ \E error \in Errors : Catch("HOD overview error:", error, StaticError)
    /\ UNCHANGED <<route, reqBody, marks, users, local, lookups>>

\* await User.count(...) resolves; res.json({ gradeDistribution, alerts, facultyCount })
OverviewCountResolves ==
    /\ route = "GET /overview" /\ pc = "count"
    /\ LET facultyCount == Len(users) IN
       Respond(200, [gradeDistribution |-> local.gradeDistribution,
                     alerts            |-> local.alerts,
                     facultyCount      |-> facultyCount])
    /\ pc' = "done"
    /\ UNCHANGED <<route, reqBody, marks, users, local, lookups, logged>>

OverviewCountRejects ==
    /\ route = "GET /overview" /\ pc = "count"
    /\ \E error \in Errors : Catch("HOD overview error:", error, StaticError)
    /\ UNCHANGED <<route, reqBody, marks, users, local, lookups>>

(***************************************************************************)
(* GET /department/:dept/stats and GET /department/:dept                   *)
(***************************************************************************)
StatsFindAllResolves ==
    /\ route = "GET /department/:dept/stats" /\ pc = "start"
    /\ Respond(200, DepartmentStats(marks))
    /\ pc' = "done"
    /\ UNCHANGED <<route, reqBody, marks, users, local, lookups, logged>>

StatsFindAllRejects ==
    /\ route = "GET /department/:dept/stats" /\ pc = "start"
    /\ \E error \in Errors : Catch("Analytics error:", error, StaticError)
    /\ UNCHANGED <<route, reqBody, marks, users, local, lookups>>

DepartmentInfo ==
    /\ route = "GET /department/:dept" /\ pc = "start"
    /\ Respond(200, [department |-> "CS", status |-> "active",
                     message |-> "Department analytics ready"])
    /\ pc' = "done"
    /\ UNCHANGED <<route, reqBody, marks, users, local, lookups, logged>>

(***************************************************************************)
(* GET /faculty: User.findAll, then one Subject.findAll per faculty row,   *)
(* all in flight at once under Promise.all.                                *)
(***************************************************************************)
FacultyFindAllResolves ==
    /\ route = "GET /faculty" /\ pc = "start"
    /\ local' = [faculty   |-> users,
                 formatted |-> [i \in 1..Len(users) |-> Null],
                 rejection |-> Null]
    /\ lookups' = [i \in 1..Len(users) |-> "pending"]
    /\ pc' = "lookups"
    /\ UNCHANGED <<route, reqBody, marks, users, sent, logged>>

FacultyFindAllRejects ==
    /\ route = "GET /faculty" /\ pc = "start"
    /\ \E error \in Errors : Catch("Get faculty error:", error, StaticError)
    /\ UNCHANGED <<route, reqBody, marks, users, local, lookups>>

\* One mapped async function finishes: its promise fulfils with the entry.
SubjectsResolves ==
    /\ route = "GET /faculty" /\ pc \in {"lookups", "done"}
    /\ \E i \in 1..Len(lookups) :
        /\ lookups[i] = "pending"
        /\ lookups' = [lookups EXCEPT ![i] = "resolved"]
        /\ local' = [local EXCEPT !.formatted[i] = Some(FormatFaculty(local.faculty[i]))]
    /\ UNCHANGED <<route, reqBody, marks, users, pc, sent, logged>>

\* One Subject.findAll rejects: Promise.all rejects with the first such error.
SubjectsRejects ==
    /\ route = "GET /faculty" /\ pc \in {"lookups", "done"}
    /\ \E i \in 1..Len(lookups), error \in Errors :
        /\ lookups[i] = "pending"
        /\ lookups' = [lookups EXCEPT ![i] = "rejected"]
        /\ local' = [local EXCEPT !.rejection = IF @ = Null THEN Some(error) ELSE @]
    /\ UNCHANGED <<route, reqBody, marks, users, pc, sent, logged>>

\* FacultyRespond under Promise.allSettled: the entries that were formatted
\* are sent once no lookup is pending.
FacultyRespondSettled ==
    /\ route = "GET /faculty" /\ pc = "lookups"
    /\ \A i \in 1..Len(lookups) : lookups[i] # "pending"
    /\ LET done(x) == x # Null
           entry(x) == x[1]
           kept == SelectSeq(local.formatted, done)
       IN  Respond(200, [i \in 1..Len(kept) |-> entry(kept[i])])
    /\ pc' = "done"
    /\ UNCHANGED <<route, reqBody, marks, users, local, lookups, logged>>

\* Promise.all fulfilled: res.json(formatted)
FacultyRespond ==
    /\ route = "GET /faculty" /\ pc = "lookups"
    /\ \A i \in 1..Len(lookups) : lookups[i] = "resolved"
    /\ Respond(200, [i \in 1..Len(lookups) |-> local.formatted[i][1]])
    /\ pc' = "done"
    /\ UNCHANGED <<route, reqBody, marks, users, local, lookups, logged>>

\* Promise.all rejected: the await throws into the catch block.
FacultyCatch ==
    /\ route = "GET /faculty" /\ pc = "lookups"
    /\ local.rejection # Null
    /\ Catch("Get faculty error:", local.rejection[1], StaticError)
    /\ UNCHANGED <<route, reqBody, marks, users, local, lookups>>

(***************************************************************************)
(* POST /faculty                                                           *)
(***************************************************************************)
HashResolves ==
    /\ route = "POST /faculty" /\ pc = "start"
    /\ local' = [hashedPassword |-> BcryptHash(reqBody.password)]
    /\ pc' = "create"
    /\ UNCHANGED <<route, reqBody, marks, users, lookups, sent, logged>>

HashRejects ==
    /\ route = "POST /faculty" /\ pc = "start"
    /\ \E error \in Errors : Catch("Add faculty error:", error, ErrorMessageOr(error))
    /\ UNCHANGED <<route, reqBody, marks, users, local, lookups>>

CreateResolves ==
    /\ route = "POST /faculty" /\ pc = "create"
    /\ LET id == Len(users) + 1
           newFaculty == NewFaculty(id, reqBody, local.hashedPassword)
       IN  /\ users' = Append(users, newFaculty)
           /\ Respond(201, [message |-> "Faculty created successfully",
                            id |-> newFaculty.id])
    /\ pc' = "done"
    /\ UNCHANGED <<route, reqBody, marks, local, lookups, logged>>

CreateRejects ==
    /\ route = "POST /faculty" /\ pc = "create"
    /\ \E error \in Errors : Catch("Add faculty error:", error, ErrorMessageOr(error))
    /\ UNCHANGED <<route, reqBody, marks, users, local, lookups>>

(***************************************************************************)
(* Specifications.                                                         *)
(***************************************************************************)
NextOverview ==
    \/ OverviewFindAllResolves
    \/ OverviewFindAllRejects
    \/ OverviewCountResolves
    \/ OverviewCountRejects

NextStats ==
    \/ StatsFindAllResolves
    \/ StatsFindAllRejects

Next ==
    \/ OverviewFindAllResolves
    \/ OverviewFindAllRejects
    \/ OverviewCountResolves
    \/ OverviewCountRejects
    \/ StatsFindAllResolves
    \/ StatsFindAllRejects
    \/ DepartmentInfo
    \/ FacultyFindAllResolves
    \/ FacultyFindAllRejects
    \/ SubjectsResolves
    \/ SubjectsRejects
    \/ FacultyRespond
    \/ FacultyCatch
    \/ HashResolves
    \/ HashRejects
    \/ CreateResolves
    \/ CreateRejects

\* Every route, over small stores.
Spec == Init /\ [][Next]_vars
\* GET /overview over the aggregation inputs.
SpecOverview == InitOverview /\ [][NextOverview]_vars
\* GET /department/:dept/stats over the aggregation inputs.
SpecStats == InitStats /\ [][NextStats]_vars

(***************************************************************************)
(* Vocabulary of the properties, in exact integer arithmetic.              *)
(***************************************************************************)
Overview200 == route = "GET /overview" /\ Len(sent) = 1 /\ sent[1].status = 200
Stats200 == route = "GET /department/:dept/stats" /\ Len(sent) = 1 /\ sent[1].status = 200
SentAlerts == sent[1].body.alerts

Score(m) == IF m.marks = Null THEN 0 ELSE m.marks[1]
Ceiling(m) == IF m.maxMarks = Null \/ m.maxMarks[1] = 0 THEN 50 ELSE m.maxMarks[1]
\* percent >= t, for a positive ceiling
PercentAtLeast(m, t) == 100 * Score(m) >= t * Ceiling(m)
InBand(m, lo, hi) == PercentAtLeast(m, lo) /\ ~PercentAtLeast(m, hi)
CountRows(P(_)) == Cardinality({i \in 1..Len(marks) : P(marks[i])})

RowsOf(sid) == {i \in 1..Len(marks) : marks[i].studentId = sid}
RowsIn(subject) == {i \in 1..Len(marks) : marks[i].subject = Some(subject)}
RECURSIVE TotalOver(_)
TotalOver(I) ==
    IF I = {} THEN 0
    ELSE LET i == CHOOSE j \in I : TRUE IN Score(marks[i]) + TotalOver(I \ {i})
MeanBelow(I, k) == TotalOver(I) < k * Cardinality(I)
StudentIds == {marks[i].studentId : i \in 1..Len(marks)}
SubjectNames == {marks[i].subject[1] : i \in {j \in 1..Len(marks) : marks[j].subject # Null}}
FirstRow(sid) == CHOOSE i \in RowsOf(sid) : \A j \in RowsOf(sid) : i <= j
\* Students whose mean is below the risk threshold
AtRisk == {sid \in StudentIds : MeanBelow(RowsOf(sid), 18)}
\* ... and whose student row was joined
AtRiskKnown == {sid \in AtRisk : sid # Null}
LowSubjects == {n \in SubjectNames : MeanBelow(RowsIn(n), 25)}
Pending == Cardinality({i \in 1..Len(marks) : marks[i].status = "PENDING"})
Min(a, b) == IF a < b THEN a ELSE b

IsStudentWarning(a) == a.type = "warning" /\ a.message.template = "has low average"
IsSubjectWarning(a) == a.type = "warning" /\ a.message.template = "has low class average"
IsCritical(a) == a.type = "critical"
IsPending(a) ==
    a.type = "info" /\ a.message.template = "mark entries are still pending review"
IsAllClear(a) ==
    /\ a.type = "info"
    /\ a.message.template = "All department metrics are within acceptable range"
Positions(alerts, P(_)) == {i \in 1..Len(alerts) : P(alerts[i])}

(***************************************************************************)
(* C1.  Every record increments exactly one grade-band counter, chosen by  *)
(* percent = (marks||0)/(maxMarks||50)*100: >= 80 A, [60,80) B, [40,60) C, *)
(* [20,40) D, otherwise F; the five counts sum to the number of records    *)
(* and are all 0 for no records.                                           *)
(***************************************************************************)
C1_GradeBandsPartition ==
    Overview200 =>
        LET data == sent[1].body.gradeDistribution.data
            A(m) == PercentAtLeast(m, 80)
            B(m) == InBand(m, 60, 80)
            C(m) == InBand(m, 40, 60)
            D(m) == InBand(m, 20, 40)
            F(m) == ~PercentAtLeast(m, 20)
        IN  /\ data = <<CountRows(A), CountRows(B), CountRows(C), CountRows(D), CountRows(F)>>
            /\ data[1] + data[2] + data[3] + data[4] + data[5] = Len(marks)
            /\ (marks = <<>> => data = <<0, 0, 0, 0, 0>>)

\* A record above 100 percent and one below 0 percent were counted.
C1_Witness ==
    /\ Overview200
    /\ \E i, j \in 1..Len(marks) :
        /\ Score(marks[i]) > Ceiling(marks[i])
        /\ Score(marks[j]) < 0
    /\ sent[1].body.gradeDistribution.data = <<1, 0, 0, 0, 1>>

(***************************************************************************)
(* C2.  When an alert condition fires the alert list is: one critical      *)
(* alert first iff more than 5 students are at risk (mean below 18); then  *)
(* min(5, students at risk) per-student warnings; then one warning per     *)
(* subject whose mean is below 25; then one pending alert stating the      *)
(* count iff a record is pending.                                          *)
(***************************************************************************)
AlertShape(alerts, atRisk) ==
    LET n == Cardinality(atRisk)
        c == IF n > 5 THEN 1 ELSE 0
        k == Min(5, n)
        s == Cardinality(LowSubjects)
        p == IF Pending > 0 THEN 1 ELSE 0
    IN  /\ Len(alerts) = c + k + s + p
        /\ Positions(alerts, IsCritical) = 1..c
        /\ Positions(alerts, IsStudentWarning) = (c + 1)..(c + k)
        /\ Positions(alerts, IsSubjectWarning) = (c + k + 1)..(c + k + s)
        /\ {alerts[i].message.about : i \in (c + k + 1)..(c + k + s)} = LowSubjects
        /\ Positions(alerts, IsPending) = (c + k + s + 1)..(c + k + s + p)
        /\ p = 1 => alerts[Len(alerts)].message.value = Pending

C2_AlertListShape ==
    (Overview200 /\ (AtRisk # {} \/ LowSubjects # {} \/ Pending > 0))
        => AlertShape(SentAlerts, AtRisk)

\* The same shape over the students whose student row was joined.
AlertListShapeOfKnownStudents ==
    Overview200 /\ (AtRiskKnown # {} \/ LowSubjects # {} \/ Pending > 0)
        => AlertShape(SentAlerts, AtRiskKnown)

(***************************************************************************)
(* C3.  The "within acceptable range" alert is emitted iff no other alert  *)
(* was; it is then the only alert and has id 1.  The list is never empty,  *)
(* no records give exactly that alert, and records whose only trigger is   *)
(* PENDING give just the pending alert.                                    *)
(***************************************************************************)
C3_AllClearOnlyWhenNothingElse ==
    Overview200 =>
        LET alerts == SentAlerts
            others == {i \in 1..Len(alerts) : ~IsAllClear(alerts[i])}
        IN  /\ alerts # <<>>
            /\ (Positions(alerts, IsAllClear) # {}) <=> (others = {})
            /\ Positions(alerts, IsAllClear) # {} =>
                 (Len(alerts) = 1 /\ alerts[1].id = 1)
            /\ (AtRiskKnown = {} /\ LowSubjects = {} /\ Pending = 0) =>
                 Positions(alerts, IsAllClear) = {1}
            /\ marks = <<>> => (Len(alerts) = 1 /\ IsAllClear(alerts[1]))
            /\ (AtRiskKnown = {} /\ LowSubjects = {} /\ Pending > 0) =>
                 /\ Len(alerts) = 1
                 /\ IsPending(alerts[1])
                 /\ alerts[1].message.value = Pending

\* Two pending records and no other trigger were answered.
C3_Witness ==
    /\ Overview200
    /\ Pending = 2 /\ AtRisk = {} /\ LowSubjects = {}
    /\ Len(SentAlerts) = 1 /\ IsPending(SentAlerts[1])

(***************************************************************************)
(* C4.  The stats route answers {0,0,0,0} for no records; otherwise        *)
(* totalStudents is the number of distinct studentId values, atRiskCount   *)
(* the number of students whose mean is below 18, passPercentage           *)
(* 100 * (students with mean >= 20) / totalStudents rounded to 1 decimal,  *)
(* and average the mean of the per-student means rounded to 1 decimal with *)
(* ties rounded up; means 25, 19, 15, 30 give 4, 1, 75.0 and 22.3.         *)
(***************************************************************************)
RECURSIVE ProductOfCounts(_)
ProductOfCounts(S) ==
    IF S = {} THEN 1
    ELSE LET sid == CHOOSE x \in S : TRUE
         IN  Cardinality(RowsOf(sid)) * ProductOfCounts(S \ {sid})
RECURSIVE SumOfMeansTimes(_, _)
\* sum over S of (mean of sid) * scale, scale a multiple of every count
SumOfMeansTimes(S, scale) ==
    IF S = {} THEN 0
    ELSE LET sid == CHOOSE x \in S : TRUE
         IN  TotalOver(RowsOf(sid)) * (scale \div Cardinality(RowsOf(sid)))
               + SumOfMeansTimes(S \ {sid}, scale)
\* The mean of the per-student means is MeanNum / MeanDen.
MeanNum == SumOfMeansTimes(StudentIds, ProductOfCounts(StudentIds))
MeanDen == ProductOfCounts(StudentIds) * Cardinality(StudentIds)
Passed == {sid \in StudentIds : ~MeanBelow(RowsOf(sid), 20)}
\* num/den rounded to tenths, a tie rounded up
HalfUpTenths(num, den) == (20 * num + den) \div (2 * den)
\* tenths is a nearest tenth of num/den (either neighbour of a tie)
NearestTenths(tenths, num, den) ==
    /\ 2 * (tenths * den - 10 * num) <= den
    /\ 2 * (10 * num - tenths * den) <= den
\* num/den is a binary fraction: a double holds it exactly
Dyadic(num, den) == \E k \in 0..10 : (num * 2^k) % den = 0
ExactMeans ==
    /\ \A sid \in StudentIds : Dyadic(TotalOver(RowsOf(sid)), Cardinality(RowsOf(sid)))
    /\ Dyadic(MeanNum, MeanDen)

StatsCounts(r) ==
    /\ r.totalStudents = Cardinality(StudentIds)
    /\ r.atRiskCount = Cardinality(AtRisk)
    /\ NearestTenths(r.passPercentage, 100 * Cardinality(Passed), Cardinality(StudentIds))

\* C4 as stated: the average is the mean of the means, ties rounded up.
C4_StatsAverageHalfUp ==
    Stats200 =>
        LET r == sent[1].body IN
        IF marks = <<>>
        THEN r = [average |-> 0, passPercentage |-> 0, atRiskCount |-> 0, totalStudents |-> 0]
        ELSE /\ StatsCounts(r)
             /\ r.average = HalfUpTenths(MeanNum, MeanDen)
             /\ marks = CohortFourStudents =>
                  r = [average |-> 223, passPercentage |-> 750,
                       atRiskCount |-> 1, totalStudents |-> 4]

\* C4 as amended: the average is a nearest tenth of the mean of the means;
\* a tie is rounded up when the per-student means and their mean are binary
\* fractions, and may be rounded down otherwise.  Means 25, 19, 15, 30 give
\* 4, 1, 50.0 (two of the four means reach 20) and 22.3.
C4_StatsAverageNearest ==
    Stats200 =>
        LET r == sent[1].body IN
        IF marks = <<>>
        THEN r = [average |-> 0, passPercentage |-> 0, atRiskCount |-> 0, totalStudents |-> 0]
        ELSE /\ StatsCounts(r)
             /\ NearestTenths(r.average, MeanNum, MeanDen)
             /\ ExactMeans => r.average = HalfUpTenths(MeanNum, MeanDen)
             /\ marks = CohortFourStudents =>
                  r = [average |-> 223, passPercentage |-> 500,
                       atRiskCount |-> 1, totalStudents |-> 4]

\* The per-student means 25, 19, 15, 30, whose mean 22.25 is a tie, were
\* answered.
C4_Witness ==
    /\ Stats200
    /\ marks = CohortFourStudents
    /\ 20 * MeanNum = 445 * MeanDen
    /\ sent[1].body.average = 223

(***************************************************************************)
(* C5.  The per-student warnings appear in the order in which each warned  *)
(* student's first record appears in the input; with more than 5 students  *)
(* at risk the 5 warned are the first 5 by first appearance.               *)
(***************************************************************************)
\* The studentId a per-student warning names
Warned(a) == CHOOSE sid \in AtRiskKnown : ToString(sid[1]) = a.message.about
WarnedIds(alerts) == {Warned(alerts[i]) : i \in Positions(alerts, IsStudentWarning)}

C5_WarningsInFirstAppearanceOrder ==
    Overview200 =>
        LET alerts == SentAlerts
            W == Positions(alerts, IsStudentWarning)
        IN  /\ \A i, j \in W :
                 i < j => FirstRow(Warned(alerts[i])) < FirstRow(Warned(alerts[j]))
            /\ \A sid \in AtRiskKnown \ WarnedIds(alerts) :
                 \A w \in WarnedIds(alerts) : FirstRow(w) < FirstRow(sid)

\* C5 as amended: the warnings come in the property order of the grouping
\* object, ascending studentId for integer ids, and the students warned are
\* the first 5 in that order.
C5_WarningsInAscendingIdOrder ==
    Overview200 =>
        LET alerts == SentAlerts
            W == Positions(alerts, IsStudentWarning)
        IN  /\ Cardinality(W) = Min(5, Cardinality(AtRiskKnown))
            /\ Cardinality(WarnedIds(alerts)) = Cardinality(W)
            /\ \A i, j \in W : i < j => Warned(alerts[i])[1] < Warned(alerts[j])[1]
            /\ \A sid \in AtRiskKnown \ WarnedIds(alerts) :
                 \A w \in WarnedIds(alerts) : w[1] < sid[1]

\* Six students at risk, the one with the smallest id seen last.
C5_Witness ==
    /\ Overview200
    /\ Cardinality(AtRiskKnown) = 6
    /\ \E sid \in AtRiskKnown :
         /\ \A other \in AtRiskKnown \ {sid} :
              sid[1] < other[1] /\ FirstRow(other) < FirstRow(sid)
         /\ sid \in WarnedIds(SentAlerts)

(***************************************************************************)
(* C6.  The ids of the returned alerts, read in the order of the list, are *)
(* 1, 2, ..., n, also when the critical alert is at the front.             *)
(***************************************************************************)
C6_IdsIncreaseInListOrder ==
    Overview200 => \A i \in 1..Len(SentAlerts) : SentAlerts[i].id = i

\* C6 as amended: without a critical alert the ids are 1, 2, ..., n in list
\* order; with one, the critical alert at the front has id 6, the five
\* warnings after it have ids 1..5 and the rest have ids 7, ..., n.
C6_IdsInListOrderButCritical ==
    Overview200 =>
        LET alerts == SentAlerts IN
        /\ Positions(alerts, IsCritical) \subseteq {1}
        /\ (Positions(alerts, IsCritical) = {1}) <=> (Cardinality(AtRiskKnown) > 5)
        /\ IF Positions(alerts, IsCritical) = {1}
           THEN /\ Len(alerts) >= 6
                /\ alerts[1].id = 6
                /\ \A i \in 2..6 : alerts[i].id = i - 1
                /\ \A i \in 7..Len(alerts) : alerts[i].id = i
           ELSE \A i \in 1..Len(alerts) : alerts[i].id = i

\* A critical alert in front of five warnings, a subject warning and a
\* pending alert.
C6_Witness ==
    /\ Overview200
    /\ Len(SentAlerts) = 8
    /\ IsCritical(SentAlerts[1])
    /\ IsSubjectWarning(SentAlerts[7])
    /\ IsPending(SentAlerts[8])

(***************************************************************************)
(* C7.  Every 500 response of every route carries only a static message:   *)
(* whatever error was raised, the body is the same.                        *)
(***************************************************************************)
C7_StaticErrorBody ==
    \A i \in 1..Len(sent) : sent[i].status = 500 => sent[i].body = StaticError

(***************************************************************************)
(* C8.  The failure of any store call of a request aborts the whole        *)
(* response: exactly one response is sent, it is the complete success body *)
(* or a 500, and nothing computed before the failure is sent.              *)
(***************************************************************************)
StoreCallFailed ==
    \/ logged # <<>>
    \/ \E i \in 1..Len(lookups) : lookups[i] = "rejected"

CompleteBody ==
    CASE route = "GET /overview" ->
           [status |-> 200,
            body |-> [gradeDistribution |-> OverviewCompute(marks).gradeDistribution,
                      alerts            |-> OverviewCompute(marks).alerts,
                      facultyCount      |-> Len(users)]]
      [] route = "GET /faculty" ->
           [status |-> 200, body |-> [i \in 1..Len(users) |-> FormatFaculty(users[i])]]
      [] route = "POST /faculty" ->
           [status |-> 201,
            body |-> [message |-> "Faculty created successfully", id |-> Len(users)]]
      [] route = "GET /department/:dept/stats" ->
           [status |-> 200, body |-> DepartmentStats(marks)]
      [] route = "GET /department/:dept" ->
           [status |-> 200, body |-> [department |-> "CS", status |-> "active",
                                      message |-> "Department analytics ready"]]

C8_FailureAbortsTheResponse ==
    /\ Len(sent) <= 1
    /\ pc = "done" => Len(sent) = 1
    /\ \A i \in 1..Len(sent) :
        /\ sent[i].status = 500 \/ sent[i] = CompleteBody
        /\ sent[i].status = 500 => DOMAIN sent[i].body = {"message"}
        /\ StoreCallFailed => sent[i].status = 500

\* The faculty count failed after the grade distribution and the alerts
\* were computed, and the one response is a 500.
C8_Witness ==
    /\ route = "GET /overview" /\ pc = "done"
    /\ local # NoLocal /\ Len(local.alerts) > 0
    /\ Len(sent) = 1 /\ sent[1].status = 500

(***************************************************************************)
(* C9.  Ids are given in generation order from 1: the k per-student        *)
(* warnings get 1..k, the critical alert gets k+1 and keeps it at index 0, *)
(* the subject and pending alerts go on from there; the ids of a list of n *)
(* alerts are pairwise distinct and are exactly 1..n.                      *)
(***************************************************************************)
C9_IdsInGenerationOrder ==
    Overview200 =>
        LET alerts == SentAlerts
            n == Len(alerts)
            c == Cardinality(Positions(alerts, IsCritical))
            W == Positions(alerts, IsStudentWarning)
            k == Cardinality(W)
        IN  /\ {alerts[i].id : i \in 1..n} = 1..n
            /\ \A i, j \in 1..n : i # j => alerts[i].id # alerts[j].id
            /\ k <= 5
            /\ W = (c + 1)..(c + k)
            /\ \A i \in W : alerts[i].id = i - c
            /\ \A i \in Positions(alerts, IsCritical) : i = 1 /\ alerts[i].id = k + 1
            /\ \A i \in (c + k + 1)..n : alerts[i].id = i

\* A critical alert with id 6 in front, followed by later alerts.
C9_Witness ==
    /\ Overview200
    /\ IsCritical(SentAlerts[1]) /\ SentAlerts[1].id = 6
    /\ Len(SentAlerts) = 8 /\ SentAlerts[8].id = 8

(***************************************************************************)
(* C10.  The two aggregators count the same students as at risk: the       *)
(* at-risk count of the overview equals atRiskCount of the stats route     *)
(* over the same records, also when a record has no student row.           *)
(***************************************************************************)
C10_SameAtRiskCount ==
    (route = "GET /overview" /\ pc \in {"count", "done"} /\ local # NoLocal)
        => local.atRiskCount = DepartmentStats(marks).atRiskCount

====
